---- MODULE Spec2Model ----
(***************************************************************************)
(* Model of the undo/redo history tracker of                               *)
(* packages/outline-react/src/shared/useOutlineHistory.js.                 *)
(*                                                                         *)
(* View models (snapshots) are objects with identity: they are modelled as *)
(* ids 1..MaxVM into a heap.  A view model's content (node map, dirty      *)
(* nodes, selection) never changes once the editor has produced it; its    *)
(* dirty flag is mutable (markDirty) and nothing in the tracker clears it. *)
(*                                                                         *)
(* The editor is the environment.  It produces fresh view models (Produce) *)
(* and notifies the update listener of its active view model (Notify): the *)
(* one it produced last or the one undo/redo made it adopt.  A view model  *)
(* that is no longer the editor's active one is never delivered again.     *)
(* The editor notifies its listeners as part of committing an update, so   *)
(* nothing else runs between Produce and its Notify (pending).             *)
(*                                                                         *)
(* The variable last records the operation that led to the state and       *)
(* the History State, exemption set and dirty flags it started from; the   *)
(* program has no such field.  Definitions named X_variant are X with one  *)
(* line of the source changed, used to show that a property depends on X.  *)
(***************************************************************************)
EXTENDS Integers, Sequences, FiniteSets, TLC

\* ------------------------------------------------------------------ bounds
MaxVM == 4          \* view models the editor produces in one run
MaxTypedLen == 0    \* longest text of the typing session of Spec
MaxSetLen == 1      \* longest stack handed to setHistoryState
MaxTextLen == 3     \* longest text of the pairs of MergeSpec
MaxFlags == 1       \* largest formatting-flags value
MaxOffset == 2      \* largest anchor offset of the pairs of MergeSpec
MaxDecide == 2      \* merge decisions taken on one pair in MergeSpec
MaxSets == 1        \* calls of setHistoryState in one run
MaxAttach == 1      \* times the hook is given another editor in one run

\* ------------------------------------------------------- program constants
MERGE == 0
NO_MERGE == 1
DISCARD == 2

Null == 0

\* ----------------------------------------------------------- the data model
Alphabet == <<"a", "b", "c", "d", "e">>

Text(n) == SubSeq(Alphabet, 1, n)

UndefinedNode == [kind |-> "undefined", key |-> 0, flags |-> 0, text |-> <<>>]

BlockNode(k) == [kind |-> "block", key |-> k, flags |-> 0, text |-> <<>>]

TextNode(k, f, t) == [kind |-> "text", key |-> k, flags |-> f, text |-> t]

NoSelection == [present |-> FALSE, anchorKey |-> 0, anchorOffset |-> 0]

Selection(k, o) == [present |-> TRUE, anchorKey |-> k, anchorOffset |-> o]

NodeKeys == {1, 2}

ViewModel(n1, n2, d, s) ==
    [nodeMap |-> [k \in NodeKeys |-> IF k = 1 THEN n1 ELSE n2],
     dirtyKeys |-> d,
     selection |-> s]

EmptyViewModel == ViewModel(UndefinedNode, UndefinedNode, <<>>, NoSelection)

isTextNode(node) == node.kind = "text"

VARIABLES
    historyState,               \* [current, redoStack, undoStack]
    viewModelsWithoutHistory,   \* the exemption set of outline/HistoryHelpers
    viewModels,                 \* heap: id -> content of the view model
    dirty,                      \* heap: id -> the view model's _isDirty flag
    allocated,                  \* ids 1..allocated have been produced
    editorViewModel,            \* the editor's active view model (or Null)
    pending,                    \* the editor has yet to notify its update
    calls,                      \* merge decisions taken so far (MergeSpec)
    sets,                       \* calls of setHistoryState so far
    returned,                   \* the stacks the hook returned to its owner
    composing,                  \* editor.isComposing()
    attachment,                 \* the editor the effect is subscribed to
    last                        \* the last operation and the state before it

vars == <<historyState, viewModelsWithoutHistory, viewModels, dirty,
          allocated, editorViewModel, pending, calls, sets, returned,
          composing, attachment, last>>

\* What the tracker's operations themselves never write.
host == <<returned, composing, attachment>>

VMIds == 1..MaxVM

\* ----------------------------------------------------- ViewModel's methods
hasDirtyNodes(vm) == Len(viewModels[vm].dirtyKeys) > 0

KeyToNode(vm, i) == viewModels[vm].nodeMap[viewModels[vm].dirtyKeys[i]]

RECURSIVE CollectDirty(_, _)
CollectDirty(vm, i) ==
    IF i > Len(viewModels[vm].dirtyKeys) THEN <<>>
    ELSE IF KeyToNode(vm, i).kind = "undefined" THEN CollectDirty(vm, i + 1)
    ELSE <<KeyToNode(vm, i)>> \o CollectDirty(vm, i + 1)

getDirtyNodes(vm) == CollectDirty(vm, 1)

isDirty(vm) == dirty[vm]

markDirty(vm) == [dirty EXCEPT ![vm] = TRUE]

\* ---------------------------------------------------------- getMergeAction
\* The length changed by one: what the two selections decide.
\* Variants: any offset on the same anchor node merges; a missing selection
\* does not merge.
SelectionAction_anyOffset(prevSelection, selection) ==
    IF ~selection.present \/ ~prevSelection.present THEN MERGE
    ELSE IF selection.anchorKey # prevSelection.anchorKey THEN NO_MERGE
    ELSE MERGE

SelectionAction_selectionRequired(prevSelection, selection) ==
    IF ~selection.present \/ ~prevSelection.present THEN NO_MERGE
    ELSE IF selection.anchorKey # prevSelection.anchorKey THEN NO_MERGE
    ELSE IF prevSelection.anchorOffset = selection.anchorOffset - 1
         THEN MERGE
    ELSE NO_MERGE

SelectionAction(prevSelection, selection) ==
    IF ~selection.present \/ ~prevSelection.present THEN MERGE
    ELSE IF selection.anchorKey # prevSelection.anchorKey THEN NO_MERGE
    ELSE IF prevSelection.anchorOffset = selection.anchorOffset - 1
         THEN MERGE
    ELSE NO_MERGE

\* Variants: the empty previous text is not tested; an unchanged length is
\* not tested.
TextHeuristic_noEmptyTest(prevViewModel, nextViewModel, prevDirtyNode,nextDirtyNode) ==
    LET textDiff == Len(nextDirtyNode.text) - Len(prevDirtyNode.text)
    IN  IF textDiff = 0 THEN MERGE
        ELSE IF textDiff = -1 \/ textDiff = 1 THEN
            SelectionAction(viewModels[prevViewModel].selection,
                            viewModels[nextViewModel].selection)
        ELSE NO_MERGE

TextHeuristic_noSameLength(prevViewModel, nextViewModel, prevDirtyNode,nextDirtyNode) ==
    LET textDiff == Len(nextDirtyNode.text) - Len(prevDirtyNode.text)
    IN  IF prevDirtyNode.text = <<>> THEN NO_MERGE
        ELSE IF textDiff = -1 \/ textDiff = 1 THEN
            SelectionAction(viewModels[prevViewModel].selection,
                            viewModels[nextViewModel].selection)
        ELSE NO_MERGE

TextHeuristic(prevViewModel, nextViewModel, prevDirtyNode, nextDirtyNode) ==
    LET prevText == prevDirtyNode.text
        nextText == nextDirtyNode.text
        textDiff == Len(nextText) - Len(prevText)
        selection == viewModels[nextViewModel].selection
        prevSelection == viewModels[prevViewModel].selection
    IN  IF prevText = <<>> THEN NO_MERGE
        ELSE IF textDiff = 0 THEN MERGE
        ELSE IF textDiff = -1 \/ textDiff = 1 THEN
            SelectionAction(prevSelection, selection)
        ELSE NO_MERGE

\* The text heuristic applies to a single dirty text node known to prev.
\* Variant: the formatting flags are not compared.
SingleTextNode_ignoreFlags(prevViewModel, nextViewModel) ==
    LET dirtyNodes == getDirtyNodes(nextViewModel) IN
    IF Len(dirtyNodes) = 1 THEN
       LET nextDirtyNode == dirtyNodes[1]
           prevDirtyNode ==
               viewModels[prevViewModel].nodeMap[nextDirtyNode.key]
       IN  IF /\ prevDirtyNode.kind # "undefined"
              /\ isTextNode(prevDirtyNode)
              /\ isTextNode(nextDirtyNode)
           THEN TextHeuristic(prevViewModel, nextViewModel,
                              prevDirtyNode, nextDirtyNode)
           ELSE NO_MERGE
    ELSE NO_MERGE

SingleTextNode(prevViewModel, nextViewModel) ==
    LET dirtyNodes == getDirtyNodes(nextViewModel) IN
    IF Len(dirtyNodes) = 1 THEN
       LET nextDirtyNode == dirtyNodes[1]
           prevDirtyNode ==
               viewModels[prevViewModel].nodeMap[nextDirtyNode.key]
       IN  IF /\ prevDirtyNode.kind # "undefined"
              /\ isTextNode(prevDirtyNode)
              /\ isTextNode(nextDirtyNode)
              /\ prevDirtyNode.flags = nextDirtyNode.flags
           THEN TextHeuristic(prevViewModel, nextViewModel,
                              prevDirtyNode, nextDirtyNode)
           ELSE NO_MERGE
    ELSE NO_MERGE

\* Variants: hasDirtyNodes tested before prev === null; never DISCARD.
ContentAction_discardFirst(prevViewModel, nextViewModel) ==
    IF ~hasDirtyNodes(nextViewModel) THEN DISCARD
    ELSE IF prevViewModel = Null THEN NO_MERGE
    ELSE SingleTextNode(prevViewModel, nextViewModel)

ContentAction_neverDiscard(prevViewModel, nextViewModel) ==
    IF prevViewModel = Null THEN NO_MERGE
    ELSE SingleTextNode(prevViewModel, nextViewModel)

ContentAction(prevViewModel, nextViewModel) ==
    IF prevViewModel = Null THEN NO_MERGE
    ELSE IF ~hasDirtyNodes(nextViewModel) THEN DISCARD
    ELSE SingleTextNode(prevViewModel, nextViewModel)

\* The value returned and the exemption set the call leaves behind.
\* Variant: the tag is not deleted.
getMergeAction_keepTag(prevViewModel, nextViewModel, withoutHistory) ==
    IF nextViewModel \in withoutHistory
    THEN [action |-> MERGE, withoutHistory |-> withoutHistory]
    ELSE [action |-> ContentAction(prevViewModel, nextViewModel),
          withoutHistory |-> withoutHistory]

getMergeAction(prevViewModel, nextViewModel, withoutHistory) ==
    IF nextViewModel \in withoutHistory
    THEN [action |-> MERGE,
          withoutHistory |-> withoutHistory \ {nextViewModel}]
    ELSE [action |-> ContentAction(prevViewModel, nextViewModel),
          withoutHistory |-> withoutHistory]

\* ------------------------------------------------------- the update listener
\* undone: for a redo() that directly follows an undo(), the branch that
\* undo() took and the History State it started from.
\* mergedOverRedo: some update of the run was merged, or bypassed as dirty,
\* while redoStack was not empty.
NothingUndone ==
    [outcome |-> "none",
     pre |-> [current |-> Null, redoStack |-> <<>>, undoStack |-> <<>>]]

Record(op, arg, outcome, adopted) ==
    [op |-> op, arg |-> arg, outcome |-> outcome, adopted |-> adopted,
     pre |-> historyState, preWithoutHistory |-> viewModelsWithoutHistory,
     preDirty |-> dirty, preEditor |-> editorViewModel,
     preComposing |-> composing, given |-> <<>>,
     mergedOverRedo |-> \/ last.mergedOverRedo
                        \/ /\ op = "applyChange"
                           /\ outcome \in {"merge", "dirty"}
                           /\ historyState.redoStack # <<>>,
     undone |-> IF op = "redo" /\ last.op = "undo"
                THEN [outcome |-> last.outcome, pre |-> last.pre]
                ELSE NothingUndone]

\* Which way applyChange(viewModel) goes before any merge decision.
\* Variants: without the identity guard; without the isDirty() test.
applyChangePath_noGuard(viewModel) ==
    IF isDirty(viewModel) THEN "dirty" ELSE "decide"

applyChangePath_noBypass(viewModel) ==
    IF viewModel = historyState.current THEN "same" ELSE "decide"

applyChangePath(viewModel) ==
    IF viewModel = historyState.current THEN "same"
    ELSE IF isDirty(viewModel) THEN "dirty"
    ELSE "decide"

\* The NO_MERGE branch followed by historyState.current = viewModel.
\* Variants: redoStack is kept; viewModel is pushed instead of current.
commit_keepRedo(current, viewModel) ==
    [current |-> viewModel,
     redoStack |-> historyState.redoStack,
     undoStack |-> IF current # Null
                   THEN Append(historyState.undoStack, current)
                   ELSE historyState.undoStack]

commit_pushNext(current, viewModel) ==
    [current |-> viewModel,
     redoStack |-> <<>>,
     undoStack |-> IF current # Null
                   THEN Append(historyState.undoStack, viewModel)
                   ELSE historyState.undoStack]

commit(current, viewModel) ==
    [current |-> viewModel,
     redoStack |-> IF Len(historyState.redoStack) # 0
                   THEN <<>>
                   ELSE historyState.redoStack,
     undoStack |-> IF current # Null
                   THEN Append(historyState.undoStack, current)
                   ELSE historyState.undoStack]

\* historyState and the exemption set after applyChange(viewModel), and the
\* path taken.
applyChangeResult(viewModel) ==
    LET current == historyState.current
        path == applyChangePath(viewModel)
        decision == getMergeAction(current, viewModel,
                                   viewModelsWithoutHistory)
        mergeAction == decision.action
    IN  IF path = "same"
        THEN [state |-> historyState,
              withoutHistory |-> viewModelsWithoutHistory,
              outcome |-> "same"]
        ELSE IF path = "dirty"
        THEN [state |-> [historyState EXCEPT !.current = viewModel],
              withoutHistory |-> viewModelsWithoutHistory,
              outcome |-> "dirty"]
        ELSE IF mergeAction = NO_MERGE
        THEN [state |-> commit(current, viewModel),
              withoutHistory |-> decision.withoutHistory,
              outcome |-> "no-merge"]
        ELSE IF mergeAction = DISCARD
        THEN [state |-> historyState,
              withoutHistory |-> decision.withoutHistory,
              outcome |-> "discard"]
        ELSE [state |-> [historyState EXCEPT !.current = viewModel],
              withoutHistory |-> decision.withoutHistory,
              outcome |-> "merge"]

applyChange(viewModel) ==
    LET result == applyChangeResult(viewModel) IN
    /\ historyState' = result.state
    /\ viewModelsWithoutHistory' = result.withoutHistory
    /\ last' = Record("applyChange", viewModel, result.outcome, Null)
    /\ UNCHANGED <<viewModels, dirty, allocated, editorViewModel, calls, sets,
                   host>>

\* ------------------------------------------------------------ undo and redo
Top(stack) == stack[Len(stack)]

Pop(stack) == SubSeq(stack, 1, Len(stack) - 1)

\* Whether undo() skips one boundary: undoStackLength !== 1 &&
\* !current.hasDirtyNodes(), inside current !== null.
\* Variants: the dirty nodes of current are not looked at; never skips.
undoSkips_ignoreDirty(current, undoStackLength) ==
    current # Null /\ undoStackLength # 1

undoSkips_never(current, undoStackLength) == FALSE

undoSkips(current, undoStackLength) ==
    /\ current # Null
    /\ undoStackLength # 1
    /\ ~hasDirtyNodes(current)

\* historyState after undo(), the view model it restores (Null: none) and
\* the branch taken.  Variant: the restored view model stays on undoStack.
undoResult_noPop ==
    LET undoStack == historyState.undoStack
        current == historyState.current
    IN  IF Len(undoStack) # 0
        THEN [state |-> [current |-> Top(undoStack),
                         redoStack |-> IF current # Null
                                       THEN Append(historyState.redoStack,
                                                   current)
                                       ELSE historyState.redoStack,
                         undoStack |-> undoStack],
              viewModel |-> Top(undoStack),
              outcome |-> "plain"]
        ELSE [state |-> historyState, viewModel |-> Null, outcome |-> "noop"]

undoResult ==
    LET undoStack == historyState.undoStack
        redoStack == historyState.redoStack
        undoStackLength == Len(undoStack)
        current == historyState.current
        skip == undoSkips(current, undoStackLength)
        undoStack1 == IF skip THEN Pop(undoStack) ELSE undoStack
        current1 == IF skip THEN Top(undoStack) ELSE current
        redoStack1 == IF current # Null THEN Append(redoStack, current1)
                      ELSE redoStack
    IN  IF undoStackLength # 0
        THEN [state |-> [current |-> Top(undoStack1),
                         redoStack |-> redoStack1,
                         undoStack |-> Pop(undoStack1)],
              viewModel |-> Top(undoStack1),
              outcome |-> IF skip THEN "skip" ELSE "plain"]
        ELSE [state |-> historyState, viewModel |-> Null, outcome |-> "noop"]

\* historyState after redo() and the view model it restores (Null: none).
\* Variant: current is not pushed onto undoStack.
redoResult_noPush ==
    LET redoStack == historyState.redoStack
    IN  IF Len(redoStack) # 0
        THEN [state |-> [current |-> Top(redoStack),
                         redoStack |-> Pop(redoStack),
                         undoStack |-> historyState.undoStack],
              viewModel |-> Top(redoStack),
              outcome |-> "plain"]
        ELSE [state |-> historyState, viewModel |-> Null, outcome |-> "noop"]

redoResult ==
    LET undoStack == historyState.undoStack
        redoStack == historyState.redoStack
        current == historyState.current
    IN  IF Len(redoStack) # 0
        THEN [state |-> [current |-> Top(redoStack),
                         redoStack |-> Pop(redoStack),
                         undoStack |-> IF current # Null
                                       THEN Append(undoStack, current)
                                       ELSE undoStack],
              viewModel |-> Top(redoStack),
              outcome |-> "plain"]
        ELSE [state |-> historyState, viewModel |-> Null, outcome |-> "noop"]

\* The tail both share: historyState.current = viewModel;
\* viewModel.markDirty(); editor.setViewModel(viewModel).
\* Variants: the tail also runs, on current, when nothing was restored; the
\* restored view model is not marked dirty.
Restore_adoptCurrent(op, result) ==
    LET viewModel == result.state.current
    IN  /\ historyState' = result.state
        /\ dirty' = IF viewModel # Null THEN markDirty(viewModel) ELSE dirty
        /\ editorViewModel' = IF viewModel # Null THEN viewModel
                              ELSE editorViewModel
        /\ last' = Record(op, Null, result.outcome, viewModel)
        /\ UNCHANGED <<viewModelsWithoutHistory, viewModels, allocated,
                       pending, calls, sets, host>>

Restore_noMark(op, result) ==
    /\ historyState' = result.state
    /\ dirty' = dirty
    /\ editorViewModel' = IF result.viewModel # Null THEN result.viewModel
                          ELSE editorViewModel
    /\ last' = Record(op, Null, result.outcome, result.viewModel)
    /\ UNCHANGED <<viewModelsWithoutHistory, viewModels, allocated, pending,
                   calls, sets, host>>

Restore(op, result) ==
    /\ historyState' = result.state
    /\ dirty' = IF result.viewModel # Null THEN markDirty(result.viewModel)
                ELSE dirty
    /\ editorViewModel' = IF result.viewModel # Null THEN result.viewModel
                          ELSE editorViewModel
    /\ last' = Record(op, Null, result.outcome, result.viewModel)
    /\ UNCHANGED <<viewModelsWithoutHistory, viewModels, allocated, pending,
                   calls, sets, host>>

undo == Restore("undo", undoResult)

redo == Restore("redo", redoResult)

\* --------------------------------------------------------- setHistoryState
setHistoryState(undoStack, redoStack) ==
    /\ historyState' = [historyState EXCEPT !.undoStack = undoStack,
                                            !.redoStack = redoStack]
    /\ last' = [Record("setHistoryState", Null, "set", Null)
                    EXCEPT !.given = <<undoStack, redoStack>>]
    /\ sets' = sets + 1
    /\ UNCHANGED <<viewModelsWithoutHistory, viewModels, dirty, allocated,
                   editorViewModel, pending, calls, host>>

\* ------------------------------------------------------------------ editor
\* The texts of a typing session: one text node, the caret at its end.
Typed(n, d) ==
    ViewModel(TextNode(1, 0, Text(n)), BlockNode(2), d, Selection(1, n))

TypingSession ==
    {Typed(n, d) : n \in 0..MaxTypedLen, d \in {<<>>, <<1>>}}

\* The editor commits an update: a fresh view model becomes its active one.
\* It notifies its listeners before anything else happens.
EditorUpdate(content, isDirtyFlag, withoutHistory) ==
    /\ ~pending
    /\ allocated < MaxVM
    /\ allocated' = allocated + 1
    /\ pending' = TRUE
    /\ viewModels' = [viewModels EXCEPT ![allocated + 1] = content]
    /\ dirty' = [dirty EXCEPT ![allocated + 1] = isDirtyFlag]
    /\ viewModelsWithoutHistory' =
           IF withoutHistory
           THEN viewModelsWithoutHistory \cup {allocated + 1}
           ELSE viewModelsWithoutHistory
    /\ editorViewModel' = allocated + 1
    /\ last' = Record("update", allocated + 1, "produced", Null)
    /\ UNCHANGED <<historyState, calls, sets, host>>

Produce ==
    \E content \in TypingSession, d \in BOOLEAN, w \in BOOLEAN :
        EditorUpdate(content, d, w)

\* The editor notifies its update listeners of its active view model.
Notify ==
    /\ editorViewModel # Null
    /\ applyChange(editorViewModel)
    /\ pending' = FALSE

Undo == ~pending /\ undo

Redo == ~pending /\ redo

StacksUpTo(n) ==
    UNION {[1..m -> 1..allocated] : m \in 0..n}

SetStacks ==
    /\ ~pending
    /\ sets < MaxSets
    /\ \E undoStack \in StacksUpTo(MaxSetLen),
          redoStack \in StacksUpTo(MaxSetLen) :
          setHistoryState(undoStack, redoStack)

\* One merge decision on the pair (current, the editor's view model), taken
\* outside applyChange.
OutcomeName(mergeAction) ==
    IF mergeAction = MERGE THEN "merge"
    ELSE IF mergeAction = NO_MERGE THEN "no-merge"
    ELSE "discard"

Decide ==
    /\ calls < MaxDecide
    /\ editorViewModel # Null
    /\ editorViewModel # historyState.current
    /\ LET decision == getMergeAction(historyState.current, editorViewModel,
                                      viewModelsWithoutHistory)
       IN  /\ viewModelsWithoutHistory' = decision.withoutHistory
           /\ last' = Record("getMergeAction", editorViewModel,
                             OutcomeName(decision.action), Null)
    /\ calls' = calls + 1
    /\ UNCHANGED <<historyState, viewModels, dirty, allocated,
                   editorViewModel, pending, sets, host>>

\* --------------------------------------------------------- the DOM triggers
\* handleKeyDown(event): key is what isUndo(event) / isRedo(event) tell.
handleKeyDown(key) ==
    IF composing
    THEN /\ last' = Record("keydown", Null, "composing", Null)
         /\ UNCHANGED <<historyState, viewModelsWithoutHistory, viewModels,
                        dirty, allocated, editorViewModel, pending, calls,
                        sets, host>>
    ELSE IF key = "undo" THEN undo ELSE redo

\* handleBeforeInput(event): inputType is event.inputType.
handleBeforeInput(inputType) ==
    IF inputType = "historyUndo" THEN undo ELSE redo

KeyDown == ~pending /\ \E key \in {"undo", "redo"} : handleKeyDown(key)

BeforeInput ==
    /\ ~pending
    /\ \E inputType \in {"historyUndo", "historyRedo"} :
          handleBeforeInput(inputType)

\* An IME composition starts or ends in the editor.
Composition ==
    /\ ~pending
    /\ composing' = ~composing
    /\ last' = Record("composition", Null, "toggled", Null)
    /\ UNCHANGED <<historyState, viewModelsWithoutHistory, viewModels, dirty,
                   allocated, editorViewModel, pending, calls, sets,
                   returned, attachment>>

\* ------------------------------------------------------ the effect's editor
\* The hook is rendered with another editor: the effect's cleanup removes
\* the listeners from the old editor and the effect subscribes to the new
\* one.  historyState is the useMemo value with no dependencies: the same
\* object as before.  The new editor may hold a view model of its own.
Reattach ==
    /\ ~pending
    /\ attachment.count < MaxAttach
    /\ attachment' = [count |-> attachment.count + 1, first |-> allocated + 1]
    /\ \E own \in {0, 1} :
          /\ allocated + own <= MaxVM
          /\ allocated' = allocated + own
          /\ editorViewModel' = IF own = 1 THEN allocated + 1 ELSE Null
    /\ composing' = FALSE
    /\ last' = Record("attach", Null, "attached", Null)
    /\ UNCHANGED <<historyState, viewModelsWithoutHistory, viewModels, dirty,
                   pending, calls, sets, returned>>

\* ------------------------------------------- the stacks handed to the owner
\* An array the owner holds: the very array of historyState (live) or an
\* array of its own with these items.
\* Variant: the hook returns its own arrays instead of copies.
slice_sameArray(array) == [live |-> TRUE, items |-> <<>>]

slice(array) == [live |-> FALSE, items |-> array]

\* [historyState.undoStack.slice(), historyState.redoStack.slice()]
getStacks ==
    [undoStack |-> slice(historyState.undoStack),
     redoStack |-> slice(historyState.redoStack)]

NothingReturned ==
    [undoStack |-> [live |-> FALSE, items |-> <<>>],
     redoStack |-> [live |-> FALSE, items |-> <<>>]]

Contents(which) ==
    IF returned[which].live THEN historyState[which]
    ELSE returned[which].items

\* The owner's component renders: the hook returns the stacks as they are.
Render ==
    /\ ~pending
    /\ returned' = getStacks
    /\ last' = Record("render", Null, "returned", Null)
    /\ UNCHANGED <<historyState, viewModelsWithoutHistory, viewModels, dirty,
                   allocated, editorViewModel, pending, calls, sets,
                   composing, attachment>>

\* What the owner does to an array it holds: array.pop().
Mutations(array) == IF array # <<>> THEN {Pop(array)} ELSE {}

OwnerMutates ==
    /\ ~pending
    /\ \E which \in {"undoStack", "redoStack"} :
          \E array \in Mutations(Contents(which)) :
             IF returned[which].live
             THEN /\ historyState' = [historyState EXCEPT ![which] = array]
                  /\ UNCHANGED returned
             ELSE /\ returned' = [returned EXCEPT ![which].items = array]
                  /\ UNCHANGED historyState
    /\ last' = Record("mutate", Null, "mutated", Null)
    /\ UNCHANGED <<viewModelsWithoutHistory, viewModels, dirty, allocated,
                   editorViewModel, pending, calls, sets, composing,
                   attachment>>

\* The owner hands the stacks it holds back: setHistoryState(...stacks).
SetReturned ==
    /\ ~pending
    /\ sets < MaxSets
    /\ setHistoryState(Contents("undoStack"), Contents("redoStack"))

\* ---------------------------------------------------------- specifications
EmptyHistory == [current |-> Null, redoStack |-> <<>>, undoStack |-> <<>>]

\* The effect is subscribed to the editor the hook was first given; every
\* view model from id first on is one of that editor.
FirstAttachment == [count |-> 0, first |-> 1]

InitRecord(h, w, d, e) ==
    [op |-> "init", arg |-> Null, outcome |-> "init", adopted |-> Null,
     pre |-> h, preWithoutHistory |-> w, preDirty |-> d, preEditor |-> e,
     preComposing |-> FALSE, given |-> <<>>, mergedOverRedo |-> FALSE,
     undone |-> NothingUndone]

\* The history starts empty.  The editor is handed over already constructed:
\* it may hold a view model (an empty one) that no listener was told of.
Init ==
    /\ historyState = EmptyHistory
    /\ viewModelsWithoutHistory = {}
    /\ viewModels = [id \in VMIds |-> EmptyViewModel]
    /\ dirty = [id \in VMIds |-> FALSE]
    /\ allocated \in {0, 1}
    /\ editorViewModel = IF allocated = 1 THEN 1 ELSE Null
    /\ pending = FALSE
    /\ calls = 0
    /\ sets = 0
    /\ returned = NothingReturned
    /\ composing = FALSE
    /\ attachment = FirstAttachment
    /\ last = InitRecord(historyState, viewModelsWithoutHistory, dirty,
                        editorViewModel)

\* recordUpdate, undo and redo only.
NextCore == Produce \/ Notify \/ Undo \/ Redo

CoreSpec == Init /\ [][NextCore]_vars

Next == Produce \/ Notify \/ Undo \/ Redo \/ SetStacks

Spec == Init /\ [][Next]_vars

\* The hook's editor changes during the run.
NextAttach == Produce \/ Notify \/ Undo \/ Redo \/ Reattach

AttachSpec == Init /\ [][NextAttach]_vars

\* Undo and redo as the DOM events of the root element trigger them.
NextInput == Produce \/ Notify \/ KeyDown \/ BeforeInput \/ Composition

InputSpec == Init /\ [][NextInput]_vars

\* The owner reads the stacks, changes its copies and hands them back.
NextOwner ==
    Produce \/ Notify \/ Undo \/ Redo \/ Render \/ OwnerMutates \/ SetReturned

OwnerSpec == Init /\ [][NextOwner]_vars

\* Every pair (prev, next) within the bounds: view model 1 is prev, view model
\* 2 is next (the editor's active one), view model 3 an undone snapshot.
Nodes1 ==
    {UndefinedNode, BlockNode(1)}
        \cup {TextNode(1, f, Text(n)) : f \in 0..MaxFlags, n \in 0..MaxTextLen}

Selections ==
    {NoSelection}
        \cup {Selection(k, o) : k \in NodeKeys, o \in 0..MaxOffset}

DirtyKeyLists == {<<>>, <<1>>, <<2>>, <<1, 2>>}

InitMerge ==
    /\ \E n1 \in Nodes1, s1 \in Selections, n2 \in Nodes1, s2 \in Selections,
          d2 \in DirtyKeyLists :
          viewModels = [id \in VMIds |->
              IF id = 1 THEN ViewModel(n1, BlockNode(2), <<>>, s1)
              ELSE IF id = 2 THEN ViewModel(n2, BlockNode(2), d2, s2)
              ELSE EmptyViewModel]
    /\ \E h \in {EmptyHistory,
                 [EmptyHistory EXCEPT !.current = 1],
                 [EmptyHistory EXCEPT !.current = 1, !.redoStack = <<3>>]} :
          historyState = h
    /\ \E d \in BOOLEAN :
          dirty = [id \in VMIds |->
                      IF id = 2 THEN d
                      ELSE id = 1 /\ historyState.redoStack # <<>>]
    /\ viewModelsWithoutHistory \in {{}, {2}}
    /\ allocated = 3
    /\ editorViewModel = 2
    /\ pending = TRUE
    /\ calls = 0
    /\ sets = 0
    /\ returned = NothingReturned
    /\ composing = FALSE
    /\ attachment = FirstAttachment
    /\ last = InitRecord(historyState, viewModelsWithoutHistory, dirty,
                        editorViewModel)

NextMerge == Decide \/ Notify

MergeSpec == InitMerge /\ [][NextMerge]_vars

\* ------------------------------------------------------------------ claims
Applied == last.op = "applyChange"

Elements(stack) == {stack[i] : i \in 1..Len(stack)}

History(c, u, r) == [current |-> c, redoStack |-> r, undoStack |-> u]

\* applyChange ran getMergeAction: next was neither current nor dirty.
Classified ==
    /\ Applied
    /\ last.arg # last.pre.current
    /\ ~last.preDirty[last.arg]

\* A merge decision was taken, inside applyChange or outside it.
Decided == Classified \/ last.op = "getMergeAction"

\* What the content of the pair alone decides.
ByContent == OutcomeName(ContentAction(last.pre.current, last.arg))

\* C1: from the empty history, recordUpdate(A) (not dirty) makes A current
\* with both stacks empty; recordUpdate(B) classified No-merge then gives
\* undoStack = [A], current = B, redoStack = []; undo() then gives current =
\* A, redoStack = [B], undoStack = []; redo() then gives current = B,
\* redoStack = [], undoStack = [A] again.
C1_RoundTrip ==
    /\ (Classified /\ last.pre = EmptyHistory)
           => historyState = History(last.arg, <<>>, <<>>)
    /\ (/\ Classified
        /\ last.outcome = "no-merge"
        /\ last.pre.current # Null
        /\ last.pre = History(last.pre.current, <<>>, <<>>))
           => historyState = History(last.arg, <<last.pre.current>>, <<>>)
    /\ (/\ last.op = "undo"
        /\ last.pre.current # Null
        /\ Len(last.pre.undoStack) = 1
        /\ last.pre.redoStack = <<>>)
           => historyState = History(last.pre.undoStack[1], <<>>,
                                     <<last.pre.current>>)
    /\ (/\ last.op = "redo"
        /\ last.pre.current # Null
        /\ last.pre.undoStack = <<>>
        /\ Len(last.pre.redoStack) = 1)
           => historyState = History(last.pre.redoStack[1],
                                     <<last.pre.current>>, <<>>)

\* Only two view models were ever produced, so the run is A, B (No-merge),
\* undo, redo.
C1_Witness ==
    /\ allocated = 2
    /\ last.op = "redo"
    /\ last.pre = History(1, <<>>, <<2>>)
    /\ historyState = History(2, <<1>>, <<>>)

\* C2: whenever recordUpdate commits a snapshot with outcome No-merge while
\* redoStack is non-empty, redoStack is empty right after that recordUpdate,
\* after any sequence of recordUpdate, undo, redo and setStacks calls.
C2_RedoCleared ==
    (Classified /\ last.outcome = "no-merge" /\ last.pre.redoStack # <<>>)
        => historyState.redoStack = <<>>

C2_Witness ==
    /\ Classified
    /\ last.outcome = "no-merge"
    /\ last.pre.redoStack # <<>>
    /\ sets = 0

\* C3: in every state reached by recordUpdate, undo and redo, the snapshot
\* held in current is an element neither of undoStack nor of redoStack.
C3_CurrentNotInStacks ==
    historyState.current \notin
        Elements(historyState.undoStack) \cup Elements(historyState.redoStack)

C3_Witness ==
    /\ historyState.current # Null
    /\ historyState.undoStack # <<>>
    /\ historyState.redoStack # <<>>
    /\ last.op = "redo"

\* C4 as stated: for every pair (prev, next) where next is not marked dirty
\* and has no dirty nodes, the decision is Discard and recordUpdate(next)
\* leaves current and both stacks unchanged.
C4_Original ==
    (Classified /\ ~hasDirtyNodes(last.arg))
        => (last.outcome = "discard" /\ historyState = last.pre)

\* C4: for every pair (prev, next) where prev is present, next is not tagged
\* exempt, next is not marked dirty and next has no dirty nodes, the decision
\* is Discard and recordUpdate(next) leaves current and both stacks
\* unchanged.
C4_Discard ==
    (/\ Classified
     /\ ~hasDirtyNodes(last.arg)
     /\ last.pre.current # Null
     /\ last.arg \notin last.preWithoutHistory)
        => (last.outcome = "discard" /\ historyState = last.pre)

C4_Witness ==
    /\ Classified
    /\ ~hasDirtyNodes(last.arg)
    /\ last.pre.current # Null
    /\ last.arg \notin last.preWithoutHistory
    /\ last.pre.redoStack # <<>>

\* C5 as stated: for every pair (prev, next) where next is not marked dirty
\* and prev is absent, the merge decision is No-merge.
C5_Original ==
    (Decided /\ ~last.preDirty[last.arg] /\ last.pre.current = Null)
        => last.outcome = "no-merge"

\* C5: for every pair (prev, next) where next is not marked dirty, next is
\* not tagged exempt and prev is absent, the merge decision is No-merge.
C5_NoPrev ==
    (/\ Decided
     /\ ~last.preDirty[last.arg]
     /\ last.pre.current = Null
     /\ last.arg \notin last.preWithoutHistory)
        => last.outcome = "no-merge"

C5_Witness ==
    /\ Decided
    /\ ~last.preDirty[last.arg]
    /\ last.pre.current = Null
    /\ last.arg \notin last.preWithoutHistory
    /\ ~hasDirtyNodes(last.arg)

\* C6: if next is tagged exempt the merge decision is Merge whatever prev
\* (absent included) and next's content are, and it removes the tag; a
\* second decision on the same snapshot is made on content alone; so
\* recordUpdate of an exempt snapshot that is not dirty leaves both stacks
\* as they were.
C6_Exempt ==
    /\ (Decided /\ last.arg \in last.preWithoutHistory)
           => (/\ last.outcome = "merge"
               /\ last.arg \notin viewModelsWithoutHistory)
    /\ (last.op = "getMergeAction" /\ calls = MaxDecide)
           => (/\ last.arg \notin last.preWithoutHistory
               /\ last.outcome = ByContent)
    /\ (/\ Applied
        /\ last.arg \in last.preWithoutHistory
        /\ ~last.preDirty[last.arg])
           => (/\ historyState.undoStack = last.pre.undoStack
               /\ historyState.redoStack = last.pre.redoStack)

\* An exempt snapshot whose content alone would have been committed.
C6_Witness ==
    /\ Classified
    /\ last.arg \in last.preWithoutHistory
    /\ last.pre.redoStack # <<>>
    /\ ByContent = "no-merge"
    /\ historyState.current = last.arg

\* C7: recordUpdate(next) with next identical to current changes nothing
\* (current, both stacks, the exemption set); and delivering the snapshot
\* just delivered once more leaves the History State as it is.
C7_Idempotent ==
    /\ (Applied /\ last.arg = last.pre.current)
           => (/\ historyState = last.pre
               /\ viewModelsWithoutHistory = last.preWithoutHistory)
    /\ Applied => applyChangeResult(last.arg).state = historyState

C7_Witness ==
    /\ Applied
    /\ last.outcome = "same"
    /\ last.arg \in viewModelsWithoutHistory
    /\ historyState.undoStack # <<>>

\* C8: recordUpdate(next) with next marked dirty and not identical to
\* current sets current = next and leaves undoStack, redoStack and the
\* exemption set unchanged, whatever prev and next's content are.
C8_DirtyBypass ==
    (Applied /\ last.preDirty[last.arg] /\ last.arg # last.pre.current)
        => (/\ last.outcome = "dirty"
            /\ historyState = [last.pre EXCEPT !.current = last.arg]
            /\ viewModelsWithoutHistory = last.preWithoutHistory)

C8_Witness ==
    /\ Applied
    /\ last.preDirty[last.arg]
    /\ last.arg # last.pre.current
    /\ last.arg \in last.preWithoutHistory
    /\ last.pre.redoStack # <<>>
    /\ ByContent = "no-merge"

\* applyChange or redo has just pushed a snapshot onto undoStack.
Pushed ==
    /\ last.op \in {"applyChange", "redo"}
    /\ Len(historyState.undoStack) = Len(last.pre.undoStack) + 1

\* C9 as stated: no snapshot is marked dirty at the moment it is pushed onto
\* undoStack.
C9_Original ==
    Pushed => ~last.preDirty[Top(historyState.undoStack)]

\* C9: a snapshot marked dirty when it is delivered is not pushed onto
\* undoStack by the recordUpdate that delivers it: that call leaves undoStack
\* unchanged.  What recordUpdate and redo push is the previous current,
\* whether or not it is marked dirty.
C9_DirtyNotPushedOnDelivery ==
    /\ (Applied /\ last.preDirty[last.arg])
           => historyState.undoStack = last.pre.undoStack
    /\ Pushed
           => historyState.undoStack
                  = Append(last.pre.undoStack, last.pre.current)

C9_Witness ==
    /\ Applied
    /\ last.outcome = "dirty"
    /\ last.pre.current # Null
    /\ last.pre.undoStack # <<>>
    /\ ~hasDirtyNodes(last.arg)

\* C10: for recordUpdate(next) with next not dirty and not identical to
\* current: on No-merge undoStack becomes the old undoStack with the old
\* current appended when current was present (unchanged when absent); on
\* Merge both stacks are unchanged; in both current = next afterwards.
C10_Commit ==
    Classified =>
        /\ last.outcome = "no-merge"
               => (/\ historyState.undoStack =
                          IF last.pre.current # Null
                          THEN Append(last.pre.undoStack, last.pre.current)
                          ELSE last.pre.undoStack
                   /\ historyState.current = last.arg)
        /\ last.outcome = "merge"
               => (/\ historyState.undoStack = last.pre.undoStack
                   /\ historyState.redoStack = last.pre.redoStack
                   /\ historyState.current = last.arg)
        /\ last.outcome =
               OutcomeName(getMergeAction(last.pre.current, last.arg,
                                          last.preWithoutHistory).action)

C10_Witness ==
    /\ Classified
    /\ last.outcome = "no-merge"
    /\ last.pre.current # Null
    /\ last.pre.undoStack # <<>>

\* C11: undo() with non-empty undoStack and current present, when undoStack
\* has exactly one entry or current has dirty nodes: afterwards redoStack is
\* the old redoStack with the old current appended, current is the old top
\* of undoStack, and undoStack is the old undoStack without its top entry.
UndoRan == last.op = "undo" /\ last.pre.undoStack # <<>>

PlainBranch ==
    /\ UndoRan
    /\ last.pre.current # Null
    /\ \/ Len(last.pre.undoStack) = 1
       \/ hasDirtyNodes(last.pre.current)

C11_UndoPlain ==
    PlainBranch =>
        historyState = History(Top(last.pre.undoStack),
                               Pop(last.pre.undoStack),
                               Append(last.pre.redoStack, last.pre.current))

C11_Witness ==
    /\ PlainBranch
    /\ Len(last.pre.undoStack) > 1
    /\ last.pre.redoStack # <<>>

\* C12: undo() with current present, undoStack holding more than one entry
\* and current having no dirty nodes (skip branch): the old top of undoStack
\* is appended to redoStack (not the old current), the entry below it becomes
\* current, and undoStack shrinks by exactly two entries.
SkipBranch ==
    /\ UndoRan
    /\ last.pre.current # Null
    /\ Len(last.pre.undoStack) > 1
    /\ ~hasDirtyNodes(last.pre.current)

C12_UndoSkip ==
    SkipBranch =>
        LET undoStack == last.pre.undoStack
            n == Len(undoStack)
        IN  /\ historyState.redoStack =
                   Append(last.pre.redoStack, undoStack[n])
            /\ historyState.current = undoStack[n - 1]
            /\ historyState.undoStack = SubSeq(undoStack, 1, n - 2)

C12_Witness ==
    /\ SkipBranch
    /\ last.outcome = "skip"
    /\ Len(historyState.undoStack) = Len(last.pre.undoStack) - 2

\* C13: redo() with non-empty redoStack: afterwards undoStack is the old
\* undoStack with the old current appended when current was present
\* (unchanged when absent), current is the old top of redoStack, and
\* redoStack is the old redoStack without its top entry.
RedoRan == last.op = "redo" /\ last.pre.redoStack # <<>>

C13_Redo ==
    RedoRan =>
        historyState =
            History(Top(last.pre.redoStack),
                    IF last.pre.current # Null
                    THEN Append(last.pre.undoStack, last.pre.current)
                    ELSE last.pre.undoStack,
                    Pop(last.pre.redoStack))

C13_Witness ==
    /\ RedoRan
    /\ last.pre.current # Null
    /\ last.pre.undoStack # <<>>
    /\ historyState.undoStack =
           Append(last.pre.undoStack, last.pre.current)

\* redo() found a redoStack to pop while current was absent.
RedoWithoutCurrent == RedoRan /\ last.pre.current = Null

\* C14: undo() on an empty undoStack and redo() on an empty redoStack are
\* defined no-ops in every reachable state: current, undoStack and redoStack
\* are unchanged, no snapshot is marked dirty, the editor is not instructed
\* to adopt any snapshot, and the call ends without a failure.
EmptyStackCall ==
    \/ last.op = "undo" /\ last.pre.undoStack = <<>>
    \/ last.op = "redo" /\ last.pre.redoStack = <<>>

C14_NoOp ==
    EmptyStackCall =>
        /\ historyState = last.pre
        /\ dirty = last.preDirty
        /\ last.adopted = Null
        /\ editorViewModel = last.preEditor
        /\ last.outcome = "noop"

C14_Witness ==
    /\ EmptyStackCall
    /\ last.op = "undo"
    /\ historyState.current # Null
    /\ ~isDirty(historyState.current)
    /\ historyState.redoStack # <<>>

\* C15: after every undo() or redo() that is not a no-op, the snapshot the
\* editor was instructed to adopt is exactly the new current, and it is
\* marked dirty; the update notification the editor then sends for that
\* snapshot is ignored by recordUpdate: current and the stacks stay as they
\* are.
Restored == last.op \in {"undo", "redo"} /\ last.outcome # "noop"

C15_AdoptsCurrent ==
    Restored =>
        /\ last.adopted = historyState.current
        /\ editorViewModel = historyState.current
        /\ isDirty(historyState.current)
        /\ applyChangeResult(editorViewModel).outcome = "same"
        /\ applyChangeResult(editorViewModel).state = historyState

C15_Witness ==
    /\ Restored
    /\ last.op = "undo"
    /\ ~last.preDirty[historyState.current]
    /\ last.preEditor # historyState.current

\* The pair of the last merge decision: the one dirty node of next and the
\* node of prev with its key.
NextDirtyNode == getDirtyNodes(last.arg)[1]

PrevDirtyNode == viewModels[last.pre.current].nodeMap[NextDirtyNode.key]

TextDiff == Len(NextDirtyNode.text) - Len(PrevDirtyNode.text)

PrevSelection == viewModels[last.pre.current].selection

NextSelection == viewModels[last.arg].selection

NotExempt == last.arg \notin last.preWithoutHistory

\* A decision on a pair whose single dirty node is a text node in prev and
\* in next, with the same flags.
OneTextNode ==
    /\ Decided
    /\ last.pre.current # Null
    /\ Len(getDirtyNodes(last.arg)) = 1
    /\ isTextNode(PrevDirtyNode)
    /\ isTextNode(NextDirtyNode)
    /\ PrevDirtyNode.flags = NextDirtyNode.flags

\* C16: single-character case.  When next is not exempt, prev is present,
\* exactly one node is dirty, it exists in prev, both versions are text nodes
\* with identical flags, the previous text is non-empty, the length differs
\* by exactly one, both snapshots have a selection and the anchor node is the
\* same, the outcome is Merge if and only if next anchor offset = prev anchor
\* offset + 1; any other offset relation gives No-merge.
SingleCharacter ==
    /\ OneTextNode
    /\ NotExempt
    /\ PrevDirtyNode.text # <<>>
    /\ TextDiff \in {-1, 1}
    /\ PrevSelection.present
    /\ NextSelection.present
    /\ PrevSelection.anchorKey = NextSelection.anchorKey

C16_SingleCharacter ==
    SingleCharacter =>
        IF NextSelection.anchorOffset = PrevSelection.anchorOffset + 1
        THEN last.outcome = "merge"
        ELSE last.outcome = "no-merge"

\* A backspace: one character less, the offset one back.
C16_Witness ==
    /\ SingleCharacter
    /\ TextDiff = -1
    /\ NextSelection.anchorOffset = PrevSelection.anchorOffset - 1
    /\ last.outcome = "no-merge"

\* A typed character: one character more, the offset one forward.
TypedCharacterMerged ==
    /\ SingleCharacter
    /\ TextDiff = 1
    /\ NextSelection.anchorOffset = PrevSelection.anchorOffset + 1
    /\ last.outcome = "merge"

\* C17: whenever the single dirty text node's previous text is empty (next
\* not exempt, prev present, same node in prev, both text, same flags), the
\* merge decision is No-merge whatever the new text and the selections are;
\* so the recordUpdate for a character typed into the emptied text is a
\* No-merge commit that pushes the empty-text snapshot onto undoStack.
PrevTextEmpty ==
    /\ OneTextNode
    /\ NotExempt
    /\ PrevDirtyNode.text = <<>>

C17_EmptyPrevText ==
    PrevTextEmpty =>
        /\ last.outcome = "no-merge"
        /\ Applied =>
               /\ historyState.undoStack =
                      Append(last.pre.undoStack, last.pre.current)
               /\ historyState.current = last.arg
               /\ Top(historyState.undoStack) = last.pre.current

C17_Witness ==
    /\ PrevTextEmpty
    /\ Applied
    /\ TextDiff = 1
    /\ PrevSelection = Selection(1, 0)
    /\ NextSelection = Selection(1, 1)
    /\ Top(historyState.undoStack) = last.pre.current

\* C18: when the single dirty text node (present in prev, both text,
\* identical flags, previous text non-empty) has the same text length in
\* prev and next, the merge decision is Merge regardless of the selections
\* or anchor offsets of either snapshot.
SameLength ==
    /\ OneTextNode
    /\ PrevDirtyNode.text # <<>>
    /\ TextDiff = 0

C18_SameLength == SameLength => last.outcome = "merge"

C18_Witness ==
    /\ SameLength
    /\ NotExempt
    /\ PrevSelection.present
    /\ NextSelection.present
    /\ PrevSelection.anchorKey # NextSelection.anchorKey
    /\ last.outcome = "merge"

\* C19: when the single dirty text node's length changed by exactly +1 or -1
\* (previous text non-empty, identical flags) and either prev or next has no
\* selection, the merge decision is Merge.
SelectionMissing ==
    /\ OneTextNode
    /\ PrevDirtyNode.text # <<>>
    /\ TextDiff \in {-1, 1}
    /\ ~PrevSelection.present \/ ~NextSelection.present

C19_SelectionMissing == SelectionMissing => last.outcome = "merge"

C19_Witness ==
    /\ SelectionMissing
    /\ NotExempt
    /\ PrevSelection.present
    /\ ~NextSelection.present
    /\ last.outcome = "merge"

\* C20: for next not exempt, prev present and next having dirty nodes, the
\* merge decision is No-merge in every case outside the single-text-node
\* heuristic: more than one dirty node (or zero listed), the dirty node
\* absent from prev, either version not a text node, differing formatting
\* flags, a text-length delta outside {-1, 0, +1}, or a differing anchor node
\* in the +/-1 case.  The decision function is total: it returns exactly one
\* of Merge, No-merge, Discard for every input.
ContentDecided ==
    /\ Decided
    /\ NotExempt
    /\ last.pre.current # Null
    /\ hasDirtyNodes(last.arg)

OutsideHeuristic ==
    \/ Len(getDirtyNodes(last.arg)) # 1
    \/ PrevDirtyNode.kind = "undefined"
    \/ ~isTextNode(PrevDirtyNode)
    \/ ~isTextNode(NextDirtyNode)
    \/ PrevDirtyNode.flags # NextDirtyNode.flags
    \/ TextDiff \notin {-1, 0, 1}
    \/ /\ TextDiff \in {-1, 1}
       /\ PrevSelection.present
       /\ NextSelection.present
       /\ PrevSelection.anchorKey # NextSelection.anchorKey

DecisionReturned ==
    getMergeAction(last.pre.current, last.arg, last.preWithoutHistory).action

C20_Fallthrough ==
    /\ (ContentDecided /\ OutsideHeuristic) => last.outcome = "no-merge"
    /\ Decided =>
           /\ DecisionReturned \in {MERGE, NO_MERGE, DISCARD}
           /\ last.outcome = OutcomeName(DecisionReturned)

C20_Witness ==
    /\ ContentDecided
    /\ OneTextNode
    /\ TextDiff = 2
    /\ PrevDirtyNode.text # <<>>
    /\ last.outcome = "no-merge"

\* The other ways out of the heuristic, each of them decided.
SeveralDirtyNodes == ContentDecided /\ Len(getDirtyNodes(last.arg)) = 2

NoDirtyNodeListed == ContentDecided /\ Len(getDirtyNodes(last.arg)) = 0

AbsentFromPrev ==
    /\ ContentDecided
    /\ Len(getDirtyNodes(last.arg)) = 1
    /\ PrevDirtyNode.kind = "undefined"

NotTextNodes ==
    /\ ContentDecided
    /\ Len(getDirtyNodes(last.arg)) = 1
    /\ PrevDirtyNode.kind = "block"
    /\ isTextNode(NextDirtyNode)

FlagsDiffer ==
    /\ ContentDecided
    /\ Len(getDirtyNodes(last.arg)) = 1
    /\ isTextNode(PrevDirtyNode)
    /\ isTextNode(NextDirtyNode)
    /\ PrevDirtyNode.flags # NextDirtyNode.flags
    /\ PrevDirtyNode.text # <<>>
    /\ TextDiff = 0

AnchorNodeDiffers ==
    /\ ContentDecided
    /\ OneTextNode
    /\ PrevDirtyNode.text # <<>>
    /\ TextDiff \in {-1, 1}
    /\ PrevSelection.present
    /\ NextSelection.present
    /\ PrevSelection.anchorKey # NextSelection.anchorKey

\* C21: setStacks(u, r) replaces the contents of undoStack with u and of
\* redoStack with r, in the same order, and leaves current unchanged; the
\* stacks the owner was handed are copies: changing one of them does not
\* change the History State, and handing back the stacks as they are leaves
\* the History State unchanged.
C21_Stacks ==
    /\ last.op = "setHistoryState" =>
           historyState =
               History(last.pre.current, last.given[1], last.given[2])
    /\ last.op = "mutate" => historyState = last.pre
    /\ (/\ last.op = "setHistoryState"
        /\ last.given = <<last.pre.undoStack, last.pre.redoStack>>)
           => historyState = last.pre

C21_Witness ==
    /\ last.op = "setHistoryState"
    /\ last.pre.current # Null
    /\ last.given[1] # last.pre.undoStack
    /\ last.given[1] # <<>>
    /\ historyState.undoStack = last.given[1]

\* The owner changed a copy while the stacks held something else.
CopyMutated ==
    /\ last.op = "mutate"
    /\ historyState.undoStack # <<>>
    /\ returned.undoStack.items # historyState.undoStack

\* The stacks were handed back as they were.
HandedBackUnchanged ==
    /\ last.op = "setHistoryState"
    /\ last.given = <<last.pre.undoStack, last.pre.redoStack>>
    /\ last.pre.undoStack # <<>>

\* C22: while the editor reports isComposing() = true, no undo or redo
\* trigger (neither an undo/redo key press nor a historyUndo/historyRedo
\* beforeinput event) changes current, undoStack or redoStack or makes the
\* editor adopt a snapshot.
TriggeredWhileComposing ==
    /\ last.op \in {"keydown", "undo", "redo"}
    /\ last.preComposing

C22_Original ==
    TriggeredWhileComposing =>
        /\ historyState = last.pre
        /\ last.adopted = Null
        /\ editorViewModel = last.preEditor

\* A key press during a composition was swallowed with something to undo.
KeyPressSuppressed ==
    /\ last.op = "keydown"
    /\ last.preComposing
    /\ historyState.undoStack # <<>>
    /\ historyState = last.pre

\* C23: History State is per editor attachment: when the tracker is detached
\* from one editor and attached to another, the new attachment starts with
\* current absent and both stacks empty, so no snapshot recorded from the
\* first editor can be restored into the second by undo() or redo().
C23_Original ==
    /\ last.op = "attach" => historyState = EmptyHistory
    /\ (last.op \in {"undo", "redo"} /\ last.adopted # Null)
           => last.adopted >= attachment.first

\* The second editor was made to adopt a view model of the first.
ForeignRestored ==
    /\ last.op = "undo"
    /\ attachment.count = 1
    /\ last.adopted # Null
    /\ last.adopted < attachment.first
    /\ editorViewModel = last.adopted

\* How often a view model is held by a History State.
Occurrences(h, vm) ==
    Cardinality({i \in 1..Len(h.undoStack) : h.undoStack[i] = vm})
        + Cardinality({i \in 1..Len(h.redoStack) : h.redoStack[i] = vm})
        + (IF h.current = vm THEN 1 ELSE 0)

Conserved ==
    \A vm \in VMIds :
        Occurrences(historyState, vm) = Occurrences(last.pre, vm)

\* Exactly one snapshot, the previous current, left the History State.
CurrentDropped ==
    \A vm \in VMIds :
        Occurrences(historyState, vm) =
            Occurrences(last.pre, vm)
                - (IF vm = last.pre.current THEN 1 ELSE 0)

\* C24 as stated: redo() and undo() keep the multiset of snapshots held in
\* undoStack, redoStack and current, except in the skip branch of undo(),
\* where exactly one snapshot, the previous current, is dropped and is
\* afterwards in neither stack nor in current.
C24_Original ==
    /\ last.op = "redo" => Conserved
    /\ (last.op = "undo" /\ ~SkipBranch) => Conserved
    /\ SkipBranch =>
           /\ CurrentDropped
           /\ Occurrences(historyState, last.pre.current) = 0

\* C24: redo() and undo() keep the multiset of snapshots held in undoStack,
\* redoStack and current, except in the skip branch of undo(), where exactly
\* one occurrence of the previous current is dropped; in a run without
\* setStacks the previous current is afterwards in neither stack nor in
\* current.
C24_Conservation ==
    /\ last.op = "redo" => Conserved
    /\ (last.op = "undo" /\ ~SkipBranch) => Conserved
    /\ SkipBranch =>
           /\ CurrentDropped
           /\ sets = 0 => Occurrences(historyState, last.pre.current) = 0

C24_Witness ==
    /\ SkipBranch
    /\ CurrentDropped
    /\ last.pre.redoStack # <<>>
    /\ Occurrences(last.pre, last.pre.current) = 1
    /\ Occurrences(historyState, last.pre.current) = 0

\* The dropped current is still held: setStacks had installed it in a stack.
DroppedStillHeld ==
    /\ SkipBranch
    /\ sets = 1
    /\ Occurrences(historyState, last.pre.current) = 1

\* C25: in any reachable state with current present and undoStack non-empty
\* in which undo() takes its non-skip branch (undoStack has exactly one
\* entry or current has dirty nodes), undo() immediately followed by redo()
\* restores current, undoStack and redoStack to exactly their values before
\* the undo.
RedoAfterPlainUndo ==
    /\ last.op = "redo"
    /\ last.undone.outcome # "none"
    /\ last.undone.pre.current # Null
    /\ last.undone.pre.undoStack # <<>>
    /\ \/ Len(last.undone.pre.undoStack) = 1
       \/ hasDirtyNodes(last.undone.pre.current)

C25_UndoRedo == RedoAfterPlainUndo => historyState = last.undone.pre

C25_Witness ==
    /\ RedoAfterPlainUndo
    /\ Len(last.undone.pre.undoStack) > 1
    /\ last.undone.pre.redoStack # <<>>
    /\ historyState = last.undone.pre

\* After the skip branch the round trip does not close.
RedoAfterSkip ==
    /\ last.op = "redo"
    /\ last.undone.outcome = "skip"
    /\ historyState # last.undone.pre

\* View models are numbered in the order the editor produced them, which is
\* the order they were delivered in.
RedoNewerThanCurrent ==
    \A i \in 1..Len(historyState.redoStack) :
        historyState.redoStack[i] > historyState.current

\* C26 as stated: in any run of recordUpdate calls that each deliver a fresh
\* snapshot, undo() and redo() (no setStacks), every snapshot in redoStack
\* was delivered later than the snapshot that is current, also after an
\* undo() followed by a recordUpdate that is merged or bypassed as dirty.
C26_Original == historyState.current # Null => RedoNewerThanCurrent

\* C26: in any such run in which no recordUpdate was merged or bypassed as
\* dirty while redoStack was non-empty, every snapshot in redoStack was
\* delivered later than the snapshot that is current, so redo() never
\* replaces current with a snapshot older than it.
C26_RedoForward ==
    /\ (historyState.current # Null /\ ~last.mergedOverRedo)
           => RedoNewerThanCurrent
    /\ (last.op = "redo" /\ last.adopted # Null /\ ~last.mergedOverRedo
           /\ last.pre.current # Null)
           => historyState.current > last.pre.current

C26_Witness ==
    /\ last.op = "redo"
    /\ ~last.mergedOverRedo
    /\ last.pre.current # Null
    /\ historyState.current > last.pre.current
    /\ historyState.redoStack # <<>>
    /\ RedoNewerThanCurrent

\* redo() went back to a snapshot older than the merged one it replaced.
RedoWentBack ==
    /\ last.op = "redo"
    /\ last.mergedOverRedo
    /\ last.pre.current # Null
    /\ historyState.current < last.pre.current

====
